---- MODULE Spec2Model ----
(***************************************************************************)
(* A model of the resource-record codec of src/src/record.js: the Record   *)
(* constructor, Record.fromZoneRecord_, Record.prototype.toJSON and        *)
(* Record.prototype.toString, together with the three library functions    *)
(* they call (arrify, extend, string-format-obj).                          *)
(*                                                                         *)
(* JavaScript strings are TLA+ strings (Len, SubSeq and \o act on them     *)
(* character by character).  Every other JavaScript value is a tagged      *)
(* record, and a plain object is a function from its own keys to values.   *)
(***************************************************************************)
EXTENDS Integers, Sequences, FiniteSets

VARIABLES this,      \* own data fields of the Record under test (key -> value)
          metadata,  \* the metadata object handed to the constructor (this.metadata)
          args,      \* the call that made (or failed to make) the record: which
                     \* entry point (via), its type and its metadata or field-map
          last,      \* name of the last operation that ran
          ret,       \* what the last operation returned or threw
          jsons,     \* the mappings the caller's toJSON calls returned, in order
          calls,     \* number of toJSON / toString calls made by the caller
          copy,      \* own data fields of the record rebuilt from this one's rrdatas
          self,      \* the Change under test: its id and metadata
          requests,  \* the create calls made so far: the config the caller gave
                     \* and the config parent.createChange received
          pending,   \* the requests parent.createChange has not answered yet
          reports,   \* what parent.createChange reported, in order of completion
          cbLog      \* the invocations of the callers' callbacks, in order

chVars == <<self, requests, pending, reports, cbLog>>
vars == <<this, metadata, args, last, ret, jsons, calls, copy,
          self, requests, pending, reports, cbLog>>

---------------------------------------------------------------------------
(* Bounds of the model.                                                    *)

MaxData == 2      \* longest data / rrdatas array a caller passes
MaxCalls == 2     \* toJSON / toString calls the caller makes on one record
MaxMissing == 1   \* template fields a zone-file field-map may lack
MaxCreates == 2   \* create calls made on one Change

---------------------------------------------------------------------------
(* JavaScript values.                                                      *)

Undefined == [t |-> "undefined", s |-> "", a |-> <<>>]
Null == [t |-> "null", s |-> "", a |-> <<>>]
Str(s) == [t |-> "string", s |-> s, a |-> <<>>]
\* a number is kept as its decimal rendering, the only way the codec uses it
Num(s) == [t |-> "number", s |-> s, a |-> <<>>]
Arr(a) == [t |-> "array", s |-> "", a |-> a]
\* the empty plain object {}
EmptyObj == [t |-> "object", s |-> "", a |-> <<>>]
\* a reference to the object called n
Obj(n) == [t |-> "object", s |-> n, a |-> <<>>]

\* ToBoolean, as applied by `if (x)` and `x || y`
Truthy(v) ==
  CASE v.t = "undefined" -> FALSE
    [] v.t = "null" -> FALSE
    [] v.t = "string" -> v.s # ""
    [] v.t = "number" -> v.s # "0"
    [] OTHER -> TRUE

RECURSIVE JoinVals(_, _)
\* ToString, as applied to the value a String.prototype.replace callback returns
ToStr(v) ==
  CASE v.t = "undefined" -> "undefined"
    [] v.t = "null" -> "null"
    [] v.t = "string" -> v.s
    [] v.t = "number" -> v.s
    [] v.t = "array" -> JoinVals(v.a, ",")
    [] OTHER -> "[object Object]"

\* Array.prototype.join over values: null and undefined render as ""
JoinVals(a, sep) ==
  IF a = <<>> THEN ""
  ELSE LET h == IF Head(a).t \in {"undefined", "null"} THEN "" ELSE ToStr(Head(a))
       IN  IF Len(a) = 1 THEN h ELSE h \o sep \o JoinVals(Tail(a), sep)

RECURSIVE Join(_, _)
\* Array.prototype.join over strings
Join(lines, sep) ==
  IF lines = <<>> THEN ""
  ELSE IF Len(lines) = 1 THEN Head(lines)
  ELSE Head(lines) \o sep \o Join(Tail(lines), sep)

---------------------------------------------------------------------------
(* Plain objects: functions from own keys to values.                       *)

NoKeys == [k \in {} |-> Undefined]
Get(o, k) == IF k \in DOMAIN o THEN o[k] ELSE Undefined
Set(o, k, v) == [x \in DOMAIN o \cup {k} |-> IF x = k THEN v ELSE o[x]]
Delete(o, k) == [x \in DOMAIN o \ {k} |-> o[x]]

---------------------------------------------------------------------------
(* String case conversion.                                                 *)

LowerAlpha == "abcdefghijklmnopqrstuvwxyz"
UpperAlpha == "ABCDEFGHIJKLMNOPQRSTUVWXYZ"

MapChar(c, from, to) ==
  IF \E i \in 1..Len(from) : SubSeq(from, i, i) = c
  THEN LET i == CHOOSE i \in 1..Len(from) : SubSeq(from, i, i) = c
       IN  SubSeq(to, i, i)
  ELSE c

RECURSIVE MapStr(_, _, _)
MapStr(s, from, to) ==
  IF s = "" THEN ""
  ELSE MapChar(SubSeq(s, 1, 1), from, to) \o MapStr(SubSeq(s, 2, Len(s)), from, to)

toUpperCase(s) == MapStr(s, LowerAlpha, UpperAlpha)
toLowerCase(s) == MapStr(s, UpperAlpha, LowerAlpha)

---------------------------------------------------------------------------
(* The libraries record.js requires.                                       *)

\* arrify(val): [] for null and undefined, an array as it is, [val] otherwise
arrify(val) ==
  CASE val.t \in {"undefined", "null"} -> Arr(<<>>)
    [] val.t = "array" -> val
    [] OTHER -> Arr(<<val>>)

\* extend(target, source), shallow: every key of source whose value is not
\* undefined is assigned to target; the value is what target holds afterwards
extend(target, source) ==
  LET copied == {k \in DOMAIN source : source[k].t # "undefined"}
  IN  [k \in DOMAIN target \cup copied |->
         IF k \in copied THEN source[k] ELSE target[k]]

\* position of the first c in s at or after from, 0 when there is none
IndexOf(s, c, from) ==
  LET hits == {i \in from..Len(s) : SubSeq(s, i, i) = c}
  IN  IF hits = {} THEN 0 ELSE CHOOSE i \in hits : \A j \in hits : i <= j

RECURSIVE format_noInCheck(_, _)
\* a formatter that returns args[key] without the `key in args` test
format_noInCheck(template, fields) ==
  LET open == IndexOf(template, "{", 1)
      close == IF open = 0 THEN 0 ELSE IndexOf(template, "}", open + 1)
  IN  IF close = 0 THEN template
      ELSE SubSeq(template, 1, open - 1)
             \o ToStr(Get(fields, SubSeq(template, open + 1, close - 1)))
             \o format_noInCheck(SubSeq(template, close + 1, Len(template)), fields)

RECURSIVE format(_, _)
\* format(template, args) of string-format-obj:
\*   template.replace(/{([^}]*)}/g, (match, key) => key in args ? args[key] : match)
\* one left-to-right pass; replacements are not scanned again
format(template, fields) ==
  LET open == IndexOf(template, "{", 1)
      close == IF open = 0 THEN 0 ELSE IndexOf(template, "}", open + 1)
  IN  IF close = 0 THEN template
      ELSE LET key == SubSeq(template, open + 1, close - 1)
               match == SubSeq(template, open, close)
           IN  SubSeq(template, 1, open - 1)
                 \o (IF key \in DOMAIN fields THEN ToStr(fields[key]) ELSE match)
                 \o format(SubSeq(template, close + 1, Len(template)), fields)

---------------------------------------------------------------------------
(* Record.prototype.toJSON.  The value has the mapping returned (ret) and  *)
(* the contents of this.metadata once the call is over (metadata).         *)

\* a toJSON that renames data to rrdatas without arrify
toJSON_noArrify(th, md) ==
  LET typed == [k \in {"type"} |-> Str(toUpperCase(th["type"].s))]
      recordObject == extend(extend(NoKeys, md), typed)
  IN  [ret |-> IF Truthy(Get(recordObject, "data"))
               THEN Delete(Set(recordObject, "rrdatas", recordObject["data"]), "data")
               ELSE recordObject,
       metadata |-> md]

\* a toJSON that lets a type field of the metadata override the record's type
toJSON_metadataTypeWins(th, md) ==
  LET typed == [k \in {"type"} |-> Str(toUpperCase(th["type"].s))]
      recordObject == extend(extend(NoKeys, typed), md)
  IN  [ret |-> IF Truthy(Get(recordObject, "data"))
               THEN Delete(Set(recordObject, "rrdatas", arrify(recordObject["data"])), "data")
               ELSE recordObject,
       metadata |-> md]

\* a toJSON that wraps data in a new array even when it is one already
toJSON_alwaysWrap(th, md) ==
  LET typed == [k \in {"type"} |-> Str(toUpperCase(th["type"].s))]
      recordObject == extend(extend(NoKeys, md), typed)
  IN  [ret |-> IF Truthy(Get(recordObject, "data"))
               THEN Delete(Set(recordObject, "rrdatas", Arr(<<recordObject["data"]>>)),
                           "data")
               ELSE recordObject,
       metadata |-> md]

\* a toJSON that sets rrdatas without the `if (recordObject.data)` test
toJSON_alwaysRrdatas(th, md) ==
  LET typed == [k \in {"type"} |-> Str(toUpperCase(th["type"].s))]
      recordObject == extend(extend(NoKeys, md), typed)
  IN  [ret |-> Delete(Set(recordObject, "rrdatas", arrify(Get(recordObject, "data"))),
                      "data"),
       metadata |-> md]

\* a toJSON that extends this.metadata itself instead of a fresh object
toJSON_inPlace(th, md) ==
  LET typed == [k \in {"type"} |-> Str(toUpperCase(th["type"].s))]
      recordObject == extend(md, typed)
      shaped == IF Truthy(Get(recordObject, "data"))
                THEN Delete(Set(recordObject, "rrdatas", arrify(recordObject["data"])),
                            "data")
                ELSE recordObject
  IN  [ret |-> shaped, metadata |-> shaped]

toJSON(th, md) ==
  LET typed == [k \in {"type"} |-> Str(toUpperCase(th["type"].s))]
      recordObject == extend(extend(NoKeys, md), typed)
  IN  [ret |-> IF Truthy(Get(recordObject, "data"))
               THEN Delete(Set(recordObject, "rrdatas", arrify(recordObject["data"])),
                           "data")
               ELSE recordObject,
       metadata |-> md]

(* The Record constructor: the own data fields of the new object (this)    *)
(* and the contents of the metadata object afterwards (metadata).          *)

\* a constructor that defaults a missing data to the empty sequence
Record_defaultData(type, md) ==
  LET json == toJSON([k \in {"type"} |-> Str(type)], md)
      copied == extend([k \in {"type"} |-> Str(type)], json.ret)
  IN  [this |-> Delete(Set(copied, "data", arrify(Get(copied, "rrdatas"))), "rrdatas"),
       metadata |-> json.metadata]

\* a constructor that forgets `delete this.rrdatas`
Record_keepRrdatas(type, md) ==
  LET json == toJSON([k \in {"type"} |-> Str(type)], md)
      copied == extend([k \in {"type"} |-> Str(type)], json.ret)
  IN  [this |-> IF Truthy(Get(copied, "rrdatas"))
                THEN Set(copied, "data", copied["rrdatas"])
                ELSE copied,
       metadata |-> json.metadata]

Record(type, md) ==
  LET json == toJSON([k \in {"type"} |-> Str(type)], md)
      copied == extend([k \in {"type"} |-> Str(type)], json.ret)
  IN  [this |-> IF Truthy(Get(copied, "rrdatas"))
                THEN Delete(Set(copied, "data", copied["rrdatas"]), "rrdatas")
                ELSE copied,
       metadata |-> json.metadata]

NoRet == [st |-> "none", err |-> "", val |-> Undefined, obj |-> NoKeys]
Returned(val, obj) == [st |-> "return", err |-> "", val |-> val, obj |-> obj]
Thrown(err) == [st |-> "throw", err |-> err, val |-> Undefined, obj |-> NoKeys]

(* Record.prototype.toString.  json is the mapping toJSON returns; each    *)
(* pass of the map callback sets json.rrdata and formats the line.  A      *)
(* truthy rrdatas that is no array has no map method: a TypeError.         *)

LineTemplate == "{name} {ttl} IN {type} {rrdata}"

\* a toString that falls back to [{}] for an empty rrdatas too
toString_emptyFallback(th, md) ==
  LET call == toJSON(th, md)
      json == call.ret
      given == Get(json, "rrdatas")
      rrdatas == IF Truthy(given) /\ given # Arr(<<>>) THEN given
                 ELSE Arr(<<EmptyObj>>)
      lines == [i \in 1..Len(rrdatas.a) |->
                  format(LineTemplate, Set(json, "rrdata", rrdatas.a[i]))]
  IN  [ret |-> IF rrdatas.t = "array" THEN Returned(Str(Join(lines, "\n")), NoKeys)
               ELSE Thrown("TypeError"),
       metadata |-> call.metadata]

\* a toString that ends every line with a newline instead of joining them
toString_trailingNewline(th, md) ==
  LET call == toJSON(th, md)
      json == call.ret
      rrdatas == IF Truthy(Get(json, "rrdatas")) THEN json["rrdatas"]
                 ELSE Arr(<<EmptyObj>>)
      lines == [i \in 1..Len(rrdatas.a) |->
                  format(LineTemplate, Set(json, "rrdata", rrdatas.a[i])) \o "\n"]
  IN  [ret |-> IF rrdatas.t = "array" THEN Returned(Str(Join(lines, "")), NoKeys)
               ELSE Thrown("TypeError"),
       metadata |-> call.metadata]

toString(th, md) ==
  LET call == toJSON(th, md)
      json == call.ret
      rrdatas == IF Truthy(Get(json, "rrdatas")) THEN json["rrdatas"]
                 ELSE Arr(<<EmptyObj>>)
      lines == [i \in 1..Len(rrdatas.a) |->
                  format(LineTemplate, Set(json, "rrdata", rrdatas.a[i]))]
  IN  [ret |-> IF rrdatas.t = "array" THEN Returned(Str(Join(lines, "\n")), NoKeys)
               ELSE Thrown("TypeError"),
       metadata |-> call.metadata]

(* Record.fromZoneRecord_.                                                 *)

\* the table with the SOA timers in the order refresh, retry
typeToZoneFormat_soaSwapped ==
  [a |-> "{ip}",
   aaaa |-> "{ip}",
   cname |-> "{alias}",
   mx |-> "{preference} {host}",
   ns |-> "{host}",
   soa |-> "{mname} {rname} {serial} {refresh} {retry} {expire} {minimum}",
   spf |-> "{data}",
   srv |-> "{priority} {weight} {port} {target}",
   txt |-> "{txt}"]

typeToZoneFormat ==
  [a |-> "{ip}",
   aaaa |-> "{ip}",
   cname |-> "{alias}",
   mx |-> "{preference} {host}",
   ns |-> "{host}",
   soa |-> "{mname} {rname} {serial} {retry} {refresh} {expire} {minimum}",
   spf |-> "{data}",
   srv |-> "{priority} {weight} {port} {target}",
   txt |-> "{txt}"]

\* a fromZoneRecord_ that falls back to the template {data} for an unknown type
fromZoneRecord_fallback(type, bindData) ==
  LET key == toLowerCase(type)
      template == IF key \in DOMAIN typeToZoneFormat THEN typeToZoneFormat[key]
                  ELSE "{data}"
      md == [data |-> Str(format(template, bindData)),
             name |-> Get(bindData, "name"),
             ttl |-> Get(bindData, "ttl")]
      made == Record(type, md)
  IN  [ret |-> Returned(Undefined, made.this),
       this |-> made.this,
       metadata |-> made.metadata]

\* typeToZoneFormat[type.toLowerCase()] is undefined for a key the table lacks,
\* and format(undefined, ...) throws a TypeError on undefined.replace before
\* any Record is made
fromZoneRecord_(type, bindData) ==
  LET key == toLowerCase(type)
  IN  IF key \notin DOMAIN typeToZoneFormat
      THEN [ret |-> Thrown("TypeError"), this |-> NoKeys, metadata |-> NoKeys]
      ELSE LET md == [data |-> Str(format(typeToZoneFormat[key], bindData)),
                      name |-> Get(bindData, "name"),
                      ttl |-> Get(bindData, "ttl")]
               made == Record(type, md)
           IN  [ret |-> Returned(Undefined, made.this),
                this |-> made.this,
                metadata |-> made.metadata]

---------------------------------------------------------------------------
(* Inputs.                                                                 *)

Elems == {"1.2.3.4", "5.6.7.8"}
Arrays == UNION {[1..n -> {Str(e) : e \in Elems}] : n \in 0..MaxData}
\* values a caller may give the data or rrdatas field of the metadata
DataVals == {Undefined, Null, Str(""), Str("1.2.3.4")} \cup {Arr(a) : a \in Arrays}

\* marks a field the caller leaves out of an object literal
Absent == [t |-> "absent", s |-> "", a |-> <<>>]
Opt(S) == S \cup {Absent}

\* the metadata object with the given (possibly absent) fields
Meta(name, ttl, data, rrdatas) ==
  LET given == [name |-> name, ttl |-> ttl, data |-> data, rrdatas |-> rrdatas]
  IN  [k \in {f \in DOMAIN given : given[f] # Absent} |-> given[k]]

PlainMetas ==
  {Meta(n, t, d, r) : n \in Opt({Str("example.com.")}), t \in Opt({Num("300"), Num("0")}),
                      d \in Opt(DataVals), r \in Opt(DataVals)}

\* metadata that carries a type field of its own
TypedMetas ==
  {[k \in DOMAIN m \cup {"type"} |-> IF k = "type" THEN Str("cname") ELSE m[k]] :
     m \in {Meta(Str("example.com."), Absent, d, r) :
              d \in Opt(DataVals), r \in Opt({Arr(<<Str("5.6.7.8")>>)})}}

Metas == PlainMetas \cup TypedMetas

CtorTypes == {"a", "A", "Mx"}

Range(f) == {f[i] : i \in DOMAIN f}

\* what a zone-file parser yields: every field a non-empty token or a number
Example ==
  [name |-> Str("example.com."), ttl |-> Num("21600"),
   ip |-> Str("1.2.3.4"), alias |-> Str("www.example.com."),
   preference |-> Num("10"), host |-> Str("mail.example.com."),
   mname |-> Str("ns1.example.com."), rname |-> Str("admin.example.com."),
   serial |-> Num("1"), retry |-> Num("7200"), refresh |-> Num("3600"),
   expire |-> Num("1209600"), minimum |-> Num("86400"),
   data |-> Str("v=spf1"), priority |-> Num("0"), weight |-> Num("5"),
   port |-> Num("5060"), target |-> Str("sip.example.com."),
   txt |-> Str("{name}")]

\* a second assignment: zeros, and tokens that look like placeholders
Other ==
  [f \in DOMAIN Example |->
     IF Example[f].t = "number" THEN Num("0") ELSE Str("{ttl}")]

Capitalised(s) == toUpperCase(SubSeq(s, 1, 1)) \o SubSeq(s, 2, Len(s))

ZoneTypes ==
  UNION {{t, toUpperCase(t), Capitalised(t)} : t \in DOMAIN typeToZoneFormat}
    \cup {"BOGUS", "ptr", ""}

RECURSIVE Placeholders(_)
\* the keys between braces in a template
Placeholders(template) ==
  LET open == IndexOf(template, "{", 1)
      close == IF open = 0 THEN 0 ELSE IndexOf(template, "}", open + 1)
  IN  IF close = 0 THEN {}
      ELSE {SubSeq(template, open + 1, close - 1)}
             \cup Placeholders(SubSeq(template, close + 1, Len(template)))

\* the fields a parser supplies for a record of this type
FieldsFor(type) ==
  {"name", "ttl"} \cup
    (IF toLowerCase(type) \in DOMAIN typeToZoneFormat
     THEN Placeholders(typeToZoneFormat[toLowerCase(type)]) ELSE {"ip"})

\* field-maps for the type: a full one, less at most MaxMissing fields
BindDatas(type) ==
  {[f \in FieldsFor(type) \ missing |-> vals[f]] :
     missing \in {m \in SUBSET FieldsFor(type) : Cardinality(m) <= MaxMissing},
     vals \in {Example, Other}}

NoArgs == [via |-> "none", type |-> "", data |-> NoKeys]

---------------------------------------------------------------------------
(* Change.prototype.create.                                                *)

\* the Change object itself, as an argument of the caller's callback
Self == Obj("self")

\* new Change(zone, 'change-id'): the id given, the metadata ServiceObject
\* starts with
NewChange == [id |-> Str("change-id"), metadata |-> EmptyObj]

\* what create hands to this.parent.createChange beside its own callback
create(config) == [config |-> config]

\* a callback that hands the Change itself to the caller on an error
onCreateChange_errSelf(slf, err, change, apiResponse) ==
  IF Truthy(err)
  THEN [self |-> slf,
        callbacks |-> <<[err |-> err, change |-> Self, seen |-> slf,
                         apiResponse |-> apiResponse]>>]
  ELSE LET assigned == [id |-> change.id, metadata |-> change.metadata]
       IN  [self |-> assigned,
            callbacks |-> <<[err |-> Null, change |-> Self, seen |-> assigned,
                             apiResponse |-> apiResponse]>>]

\* a callback that takes the id of the created change but not its metadata
onCreateChange_idOnly(slf, err, change, apiResponse) ==
  IF Truthy(err)
  THEN [self |-> slf,
        callbacks |-> <<[err |-> err, change |-> Null, seen |-> slf,
                         apiResponse |-> apiResponse]>>]
  ELSE LET assigned == [id |-> change.id, metadata |-> slf.metadata]
       IN  [self |-> assigned,
            callbacks |-> <<[err |-> Null, change |-> Self, seen |-> assigned,
                             apiResponse |-> apiResponse]>>]

\* the function create passes to this.parent.createChange, run on the Change
\* slf: the Change afterwards, and the invocations of the caller's callback,
\* each with the Change's fields as the callback finds them (seen)
onCreateChange(slf, err, change, apiResponse) ==
  IF Truthy(err)
  THEN [self |-> slf,
        callbacks |-> <<[err |-> err, change |-> Null, seen |-> slf,
                         apiResponse |-> apiResponse]>>]
  ELSE LET assigned == [id |-> change.id, metadata |-> change.metadata]
       IN  [self |-> assigned,
            callbacks |-> <<[err |-> Null, change |-> Self, seen |-> assigned,
                             apiResponse |-> apiResponse]>>]

\* config arguments of create
Configs == {Obj("config-add"), Obj("config-delete")}

\* what parent.createChange may report
Errors == {Obj("error-1"), Obj("error-2")}
ApiResponses == {Obj("response-1"), Obj("response-2")}
Created ==
  {[id |-> Str(i), metadata |-> Obj(m)] : i \in {"id-1", "id-2"},
                                         m \in {"metadata-1", "metadata-2"}}

---------------------------------------------------------------------------
(* The state machine: a caller builds one record and then calls its        *)
(* methods.                                                                *)

Init ==
  /\ this = NoKeys
  /\ metadata = NoKeys
  /\ args = NoArgs
  /\ last = "none"
  /\ ret = NoRet
  /\ jsons = <<>>
  /\ calls = 0
  /\ copy = NoKeys
  /\ self = NewChange
  /\ requests = <<>>
  /\ pending = {}
  /\ reports = <<>>
  /\ cbLog = <<>>

\* a Record object exists
Made == "type" \in DOMAIN this

\* new Record(zone, type, md)
Construct ==
  /\ last = "none"
  /\ \E type \in CtorTypes, md \in Metas :
    /\ LET made == Record(type, md)
       IN  /\ this' = made.this
           /\ metadata' = made.metadata
    /\ args' = [via |-> "Record", type |-> type, data |-> md]
    /\ last' = "Record"
    /\ ret' = NoRet
    /\ UNCHANGED <<jsons, calls, copy>>
    /\ UNCHANGED chVars

\* Record.fromZoneRecord_(zone, type, bindData)
FromZoneRecord ==
  /\ last = "none"
  /\ \E type \in ZoneTypes :
    \E bindData \in BindDatas(type) :
      /\ LET call == fromZoneRecord_(type, bindData)
         IN  /\ this' = call.this
             /\ metadata' = call.metadata
             /\ ret' = call.ret
      /\ args' = [via |-> "fromZoneRecord_", type |-> type, data |-> bindData]
      /\ last' = "fromZoneRecord_"
      /\ UNCHANGED <<jsons, calls, copy>>
      /\ UNCHANGED chVars

\* record.toJSON()
ToJSON ==
  /\ Made
  /\ calls < MaxCalls
  /\ LET call == toJSON(this, metadata)
     IN  /\ ret' = Returned(Undefined, call.ret)
         /\ jsons' = Append(jsons, call.ret)
         /\ metadata' = call.metadata
  /\ last' = "toJSON"
  /\ calls' = calls + 1
  /\ UNCHANGED <<this, args, copy>>
  /\ UNCHANGED chVars

\* record.toString()
ToString ==
  /\ Made
  /\ calls < MaxCalls
  /\ LET call == toString(this, metadata)
     IN  /\ ret' = call.ret
         /\ metadata' = call.metadata
  /\ last' = "toString"
  /\ calls' = calls + 1
  /\ UNCHANGED <<this, args, jsons, copy>>
  /\ UNCHANGED chVars

\* new Record(zone, record.type, {data: record.toJSON().rrdatas}), on a record
\* just made
RoundTrip ==
  /\ Made
  /\ last \in {"Record", "fromZoneRecord_"}
  /\ calls < MaxCalls
  /\ LET call == toJSON(this, metadata)
         again == Record(this["type"].s, [data |-> Get(call.ret, "rrdatas")])
     IN  /\ ret' = Returned(Undefined, again.this)
         /\ jsons' = Append(jsons, call.ret)
         /\ metadata' = call.metadata
         /\ copy' = again.this
  /\ last' = "roundTrip"
  /\ calls' = calls + 1
  /\ UNCHANGED <<this, args>>
  /\ UNCHANGED chVars

Next == Construct \/ FromZoneRecord \/ ToJSON \/ ToString \/ RoundTrip

Spec == Init /\ [][Next]_vars

---------------------------------------------------------------------------
(* The state machine of a Change: callers call create, and the parent zone *)
(* answers each call once, in any order.                                   *)

\* change.create(config, callback)
Create ==
  /\ Len(requests) < MaxCreates
  /\ \E config \in Configs :
       /\ requests' = Append(requests, [given |-> config,
                                        passed |-> create(config).config])
       /\ pending' = pending \cup {Len(requests) + 1}
  /\ UNCHANGED <<self, reports, cbLog>>
  /\ UNCHANGED <<this, metadata, args, last, ret, jsons, calls, copy>>

\* parent.createChange answers request n with (err, change, apiResponse)
Report(n, err, change, apiResponse) ==
  LET done == onCreateChange(self, err, change, apiResponse)
  IN  /\ pending' = pending \ {n}
      /\ reports' = Append(reports, [request |-> n, err |-> err, change |-> change,
                                     apiResponse |-> apiResponse, before |-> self])
      /\ self' = done.self
      /\ cbLog' = cbLog \o [i \in 1..Len(done.callbacks) |->
                              [request |-> n, report |-> Len(reports) + 1,
                               args |-> done.callbacks[i]]]
      /\ UNCHANGED requests
      /\ UNCHANGED <<this, metadata, args, last, ret, jsons, calls, copy>>

\* parent.createChange reports an error
ReportError ==
  \E n \in pending, err \in Errors, apiResponse \in ApiResponses :
    Report(n, err, Null, apiResponse)

\* parent.createChange reports the change it created
ReportSuccess ==
  \E n \in pending, change \in Created, apiResponse \in ApiResponses :
    Report(n, Null, change, apiResponse)

NextChange == Create \/ ReportError \/ ReportSuccess

SpecChange == Init /\ [][NextChange]_vars

---------------------------------------------------------------------------
(* Vocabulary of the properties.                                           *)

\* the record was made by `new Record(zone, type, metadata)`
ByCtor == args.via = "Record" /\ Made

\* the wire shape of the record under test
Wire == toJSON(this, metadata).ret

\* the text a field of o contributes to a line: its value, or the placeholder
\* itself when o has no such field
Shown(o, k) == IF k \in DOMAIN o THEN ToStr(o[k]) ELSE "{" \o k \o "}"

\* one zone-file line of the record for the rrdata value v
Line(o, v) ==
  Shown(o, "name") \o " " \o Shown(o, "ttl") \o " IN "
    \o toUpperCase(args.type) \o " " \o ToStr(v)

\* number of lines of a text: none in the empty text, else newlines + 1
NumLines(s) ==
  IF s = "" THEN 0
  ELSE 1 + Cardinality({i \in 1..Len(s) : SubSeq(s, i, i) = "\n"})

Max(a, b) == IF a >= b THEN a ELSE b

\* the fields of each zone-file record type, in the order of its template
FieldOrder ==
  [a |-> <<"ip">>,
   aaaa |-> <<"ip">>,
   cname |-> <<"alias">>,
   mx |-> <<"preference", "host">>,
   ns |-> <<"host">>,
   soa |-> <<"mname", "rname", "serial", "retry", "refresh", "expire", "minimum">>,
   spf |-> <<"data">>,
   srv |-> <<"priority", "weight", "port", "target">>,
   txt |-> <<"txt">>]

\* the key of the format table the call looks up
ZoneKey == toLowerCase(args.type)

\* number of entries of the wire-shape rrdatas sequence
WireEntries ==
  IF Get(Wire, "rrdatas").t = "array" THEN Len(Wire["rrdatas"].a) ELSE 0

\* a supported type, and a field-map without one of its template's fields
LacksField ==
  /\ args.via = "fromZoneRecord_"
  /\ ZoneKey \in DOMAIN FieldOrder
  /\ ~(Range(FieldOrder[ZoneKey]) \subseteq DOMAIN args.data)

\* a type the format table does not have
Unsupported ==
  /\ args.via = "fromZoneRecord_"
  /\ ZoneKey \notin DOMAIN FieldOrder

\* the metadata has neither a data nor an rrdatas field
SuppliesNoData ==
  /\ "data" \notin DOMAIN args.data
  /\ "rrdatas" \notin DOMAIN args.data

\* a toJSON or toString call leaves the record and its metadata as they were
CallLeavesRecord ==
  last' \in {"toJSON", "toString"} => /\ this' = this
                                      /\ metadata' = metadata

\* the invocations of a caller's callback made for the i-th report
CallbacksOf(i) == {j \in 1..Len(cbLog) : cbLog[j].report = i}

\* the reports of a created change, by their place in the order of completion
Successes == {i \in 1..Len(reports) : ~Truthy(reports[i].err)}

---------------------------------------------------------------------------
(* C1: for every record whose metadata has a data field that is a string   *)
(* (the empty string included) or a sequence (the empty one included),     *)
(* toJSON returns a mapping with an rrdatas key and no data key, rrdatas   *)
(* being [data] for a string and the same sequence for a sequence.         *)
C1_DataRenamedToRrdatas ==
  (ByCtor /\ last = "toJSON" /\ "data" \in DOMAIN metadata
     /\ metadata["data"].t \in {"string", "array"})
  => /\ "rrdatas" \in DOMAIN ret.obj
     /\ "data" \notin DOMAIN ret.obj
     /\ ret.obj["rrdatas"] = IF metadata["data"].t = "string"
                             THEN Arr(<<metadata["data"]>>)
                             ELSE metadata["data"]

\* C1 as amended: `if (recordObject.data)` renames every data but the
\* empty string, which it takes for no data: the mapping then keeps data: ""
\* and gains no rrdatas
C1_TruthyDataRenamed ==
  (ByCtor /\ last = "toJSON" /\ "data" \in DOMAIN metadata
     /\ metadata["data"].t \in {"string", "array"})
  => IF metadata["data"] # Str("")
     THEN /\ "rrdatas" \in DOMAIN ret.obj
          /\ "data" \notin DOMAIN ret.obj
          /\ ret.obj["rrdatas"] = IF metadata["data"].t = "string"
                                  THEN Arr(<<metadata["data"]>>)
                                  ELSE metadata["data"]
     ELSE /\ Get(ret.obj, "data") = Str("")
          /\ Get(ret.obj, "rrdatas") = Get(metadata, "rrdatas")

C1_ScalarWrapped ==
  /\ ByCtor /\ last = "toJSON"
  /\ metadata = [name |-> Str("example.com."), ttl |-> Num("300"),
                 data |-> Str("1.2.3.4")]
  /\ ret.obj = [name |-> Str("example.com."), ttl |-> Num("300"),
                type |-> Str(toUpperCase(args.type)),
                rrdatas |-> Arr(<<Str("1.2.3.4")>>)]

---------------------------------------------------------------------------
(* C2: for every supported type, in any letter case, and every field-map   *)
(* that supplies all fields of the type's template, fromZoneRecord_        *)
(* returns a record whose data is a one-element sequence, the element      *)
(* being the fields' values in the table's order separated by single       *)
(* spaces, and whose name and ttl are the field-map's name and ttl.        *)
C2_ZoneRecordData ==
  (args.via = "fromZoneRecord_" /\ ZoneKey \in DOMAIN FieldOrder
     /\ Range(FieldOrder[ZoneKey]) \subseteq DOMAIN args.data)
  => LET order == FieldOrder[ZoneKey]
         text == Join([i \in 1..Len(order) |-> ToStr(args.data[order[i]])], " ")
     IN  /\ Made
         /\ Get(this, "data") = Arr(<<Str(text)>>)
         /\ Get(this, "name") = Get(args.data, "name")
         /\ Get(this, "ttl") = Get(args.data, "ttl")

\* the SOA record of a zone file
C2_SoaExample ==
  /\ args.via = "fromZoneRecord_" /\ args.type = "SOA"
  /\ args.data = [f \in FieldsFor("SOA") |-> Example[f]]
  /\ last = "fromZoneRecord_" /\ ret.st = "return"
  /\ this["data"] =
       Arr(<<Str("ns1.example.com. admin.example.com. 1 7200 3600 1209600 86400")>>)
  /\ this["name"] = Str("example.com.")
  /\ this["ttl"] = Num("21600")

---------------------------------------------------------------------------
(* C3: toString on a record whose wire-shape rrdatas is empty or absent    *)
(* emits exactly one line, built from a single synthetic empty entry; in   *)
(* general the number of lines is max(1, number of rrdatas entries).       *)
C3_OneLineWhenEmptyOrAbsent ==
  (Made /\ last = "toString" /\ ret.st = "return")
  => /\ NumLines(ret.val.s) = Max(1, WireEntries)
     /\ WireEntries = 0 => ret.val.s = Line(Wire, EmptyObj)

\* C3 as amended.  Absent (or falsy) rrdatas: one line from the synthetic entry
\* {}, which renders as [object Object]; a sequence
\* of n entries, n >= 0: n lines, so the empty sequence gives the empty text
C3_LinesPerEntry ==
  (Made /\ last = "toString")
  => /\ ~Truthy(Get(Wire, "rrdatas"))
          => ret = Returned(Str(Line(Wire, EmptyObj)), NoKeys)
     /\ Get(Wire, "rrdatas").t = "array"
          => /\ ret.st = "return"
             /\ NumLines(ret.val.s) = WireEntries
             /\ WireEntries = 0 => ret.val.s = ""

C3_AbsentGivesOneLine ==
  /\ ByCtor /\ last = "toString"
  /\ "rrdatas" \notin DOMAIN Wire
  /\ args.type = "a"
  /\ ret = Returned(Str("example.com. 300 IN A [object Object]"), NoKeys)

---------------------------------------------------------------------------
(* C4: when fromZoneRecord_ is given a supported type and a field-map that *)
(* lacks a field of the type's template, the conversion fails with a       *)
(* MissingField error; it never returns a record whose data still holds    *)
(* an unsubstituted placeholder.                                           *)
C4_MissingFieldFails ==
  (LacksField /\ last = "fromZoneRecord_")
  => /\ ret.st = "throw"
     /\ ret.err = "MissingField"
     /\ ~Made

\* C4 as amended: no error is raised; the record's single data string has the
\* supplied fields' values and, verbatim, the placeholder of each missing one
C4_MissingFieldLeftVerbatim ==
  (LacksField /\ last = "fromZoneRecord_")
  => LET order == FieldOrder[ZoneKey]
         text == Join([i \in 1..Len(order) |-> Shown(args.data, order[i])], " ")
     IN  /\ ret.st = "return"
         /\ Made
         /\ Get(this, "data") = Arr(<<Str(text)>>)

C4_MxWithoutHost ==
  /\ args.via = "fromZoneRecord_" /\ args.type = "mx"
  /\ args.data = [f \in {"name", "ttl", "preference"} |-> Example[f]]
  /\ last = "fromZoneRecord_" /\ ret.st = "return"
  /\ this["data"] = Arr(<<Str("10 {host}")>>)

---------------------------------------------------------------------------
(* C5: when fromZoneRecord_ is given a type that is not in the format      *)
(* table (compared after lower-casing), the call fails at once with an     *)
(* UnsupportedRecordType error: no Record is constructed or returned, and  *)
(* no fallback template is used.                                           *)
C5_UnsupportedRecordType ==
  (Unsupported /\ last = "fromZoneRecord_")
  => /\ ret.st = "throw"
     /\ ret.err = "UnsupportedRecordType"
     /\ ~Made

\* C5 as amended: the call fails with the TypeError the template formatter
\* throws when given no template; no Record is made and no fallback is used
C5_UnsupportedTypeThrows ==
  Unsupported
  => /\ last = "fromZoneRecord_"
     /\ ret = Thrown("TypeError")
     /\ ~Made
     /\ this = NoKeys /\ metadata = NoKeys

C5_BogusFails ==
  /\ args.via = "fromZoneRecord_" /\ args.type = "BOGUS"
  /\ "ip" \in DOMAIN args.data
  /\ last = "fromZoneRecord_"
  /\ ret.st = "throw"
  /\ ~Made

---------------------------------------------------------------------------
(* C6: every record the constructor produces has a data field that is      *)
(* never null or missing; when the metadata supplies no data, the record's *)
(* data is an empty sequence rather than omitted.                          *)
C6_DataNeverMissing ==
  ByCtor
  => /\ "data" \in DOMAIN this
     /\ this["data"].t \notin {"null", "undefined"}
     /\ SuppliesNoData => this["data"] = Arr(<<>>)

\* C6 as amended: with neither data nor rrdatas in the metadata the
\* record has no data field; with a truthy data or rrdatas it has one, not null
C6_DataOmittedWhenNotSupplied ==
  ByCtor
  => /\ SuppliesNoData => "data" \notin DOMAIN this
     /\ (Truthy(Get(args.data, "data")) \/ Truthy(Get(args.data, "rrdatas")))
          => /\ "data" \in DOMAIN this
             /\ this["data"].t \notin {"null", "undefined"}

C6_NoDataNoField ==
  /\ ByCtor
  /\ args.data = [name |-> Str("example.com."), ttl |-> Num("300")]
  /\ DOMAIN this = {"type", "name", "ttl"}

---------------------------------------------------------------------------
(* C7: after construction from any metadata that contains an rrdatas field *)
(* (whatever its value) the record exposes that value as data and has no   *)
(* rrdatas field; in every constructed record the fields rrdatas and data  *)
(* never both exist.                                                       *)
C7_RrdatasBecomesData ==
  ByCtor
  => /\ "rrdatas" \in DOMAIN args.data
          => /\ Get(this, "data") = args.data["rrdatas"]
             /\ "rrdatas" \notin DOMAIN this
     /\ ~("rrdatas" \in DOMAIN this /\ "data" \in DOMAIN this)

\* C7 as amended: a truthy data wins (as a sequence) over any rrdatas; a
\* truthy rrdatas beside an absent or falsy data becomes the record's data; in
\* both cases rrdatas is gone.  Both fields stay only when the metadata gives
\* both with falsy values (null, "").
C7_RenameWhenTruthy ==
  ByCtor
  => LET d == Get(args.data, "data")
         r == Get(args.data, "rrdatas")
     IN  /\ Truthy(d) => /\ Get(this, "data") = arrify(d)
                         /\ "rrdatas" \notin DOMAIN this
         /\ (~Truthy(d) /\ Truthy(r)) => /\ Get(this, "data") = r
                                         /\ "rrdatas" \notin DOMAIN this
         /\ ("rrdatas" \in DOMAIN this /\ "data" \in DOMAIN this)
              => /\ d \in {Null, Str("")}
                 /\ r \in {Null, Str("")}

C7_WireRecordRenamed ==
  /\ ByCtor
  /\ args.data = [name |-> Str("example.com."), ttl |-> Num("300"),
                  rrdatas |-> Arr(<<Str("1.2.3.4"), Str("5.6.7.8")>>)]
  /\ this["data"] = Arr(<<Str("1.2.3.4"), Str("5.6.7.8")>>)
  /\ "rrdatas" \notin DOMAIN this

---------------------------------------------------------------------------
(* C8: for a record whose data is a non-empty sequence of n values,        *)
(* toString returns exactly n lines joined by single newlines, with no     *)
(* trailing newline, the i-th line being `name ttl IN TYPE data[i]` with   *)
(* the same name, ttl and upper-cased type on every line and the values in *)
(* their original order.                                                   *)
C8_OneLinePerValue ==
  (Made /\ last = "toString"
     /\ Get(this, "data").t = "array" /\ Len(Get(this, "data").a) >= 1
     /\ {"name", "ttl"} \subseteq DOMAIN this)
  => LET data == this["data"].a
         lines == [i \in 1..Len(data) |->
                     ToStr(this["name"]) \o " " \o ToStr(this["ttl"]) \o " IN "
                       \o toUpperCase(args.type) \o " " \o ToStr(data[i])]
     IN  /\ ret = Returned(Str(Join(lines, "\n")), NoKeys)
         /\ NumLines(ret.val.s) = Len(data)
         /\ SubSeq(ret.val.s, Len(ret.val.s), Len(ret.val.s)) # "\n"

C8_TwoAddresses ==
  /\ ByCtor /\ last = "toString"
  /\ args.type = "A"
  /\ args.data = [name |-> Str("example.com."), ttl |-> Num("300"),
                  data |-> Arr(<<Str("1.2.3.4"), Str("5.6.7.8")>>)]
  /\ ret.val.s = "example.com. 300 IN A 1.2.3.4\nexample.com. 300 IN A 5.6.7.8"

---------------------------------------------------------------------------
(* C9: a record constructed with no data field in its metadata yields a    *)
(* toJSON mapping in which the key rrdatas is absent.                      *)
C9_NoDataNoRrdatas ==
  (ByCtor /\ last = "toJSON" /\ "data" \notin DOMAIN args.data)
  => "rrdatas" \notin DOMAIN ret.obj

\* C9 as amended: rrdatas is absent when the metadata has neither a data
\* nor an rrdatas field (an rrdatas of the metadata is passed through)
C9_NoDataNoRrdatasField ==
  (ByCtor /\ last = "toJSON" /\ SuppliesNoData)
  => /\ "rrdatas" \notin DOMAIN ret.obj
     /\ "data" \notin DOMAIN ret.obj

C9_BareRecordJSON ==
  /\ ByCtor /\ last = "toJSON"
  /\ args.type = "a"
  /\ args.data = [name |-> Str("example.com."), ttl |-> Num("300")]
  /\ ret.obj = [name |-> Str("example.com."), ttl |-> Num("300"), type |-> Str("A")]

---------------------------------------------------------------------------
(* C10: toJSON is pure: any sequence of toJSON and toString calls on a     *)
(* record leaves the record's type, metadata and data fields (and the      *)
(* metadata object passed to the constructor) unchanged, and any two       *)
(* toJSON calls on the same record return structurally equal mappings.     *)
C10_ToJSONPure ==
  /\ [][CallLeavesRecord]_vars
  /\ [](ByCtor => metadata = args.data)
  /\ [](\A i, j \in 1..Len(jsons) : jsons[i] = jsons[j])

C10_TwoCallsMade ==
  /\ ByCtor /\ Truthy(Get(args.data, "data"))
  /\ Len(jsons) >= 1 /\ calls >= 2
  /\ last = "toJSON"

---------------------------------------------------------------------------
(* C11: round trip: for any record r, taking rrdatas from r.toJSON() and   *)
(* constructing a new record of the same type with that value as its data  *)
(* gives a record whose data sequence equals r's data sequence, element    *)
(* for element and in the same order.                                      *)
C11_RoundTrip ==
  (last = "roundTrip" /\ Get(this, "data").t = "array")
  => /\ Get(copy, "data").t = "array"
     /\ Len(copy["data"].a) = Len(this["data"].a)
     /\ \A i \in 1..Len(this["data"].a) : copy["data"].a[i] = this["data"].a[i]
     /\ copy["type"] = this["type"]

C11_TwoValuesRoundTrip ==
  /\ ByCtor /\ last = "roundTrip"
  /\ args.data = [name |-> Str("example.com."), ttl |-> Num("300"),
                  data |-> Arr(<<Str("1.2.3.4"), Str("5.6.7.8")>>)]
  /\ this["data"] = Arr(<<Str("1.2.3.4"), Str("5.6.7.8")>>)
  /\ copy["data"] = Arr(<<Str("1.2.3.4"), Str("5.6.7.8")>>)

---------------------------------------------------------------------------
(* C12: for a record constructed with a type in any letter case and any    *)
(* metadata, toJSON returns a mapping that contains every metadata field   *)
(* other than data with its value unchanged, and whose type is the         *)
(* upper-cased record type, also when the metadata itself carries a type   *)
(* field with a different value.                                           *)
C12_MetadataFieldsKept ==
  (ByCtor /\ last = "toJSON")
  => /\ \A k \in DOMAIN args.data \ {"data", "type"} :
          Get(ret.obj, k) = args.data[k]
     /\ Get(ret.obj, "type") = Str(toUpperCase(args.type))

\* C12 as amended: every metadata field other than data, type and rrdatas
\* reads back unchanged; rrdatas reads back unchanged when the metadata's
\* data is falsy or absent and is data as a sequence otherwise; type is the
\* upper-cased record type
C12_FieldsKeptUnlessDataGiven ==
  (ByCtor /\ last = "toJSON")
  => /\ \A k \in DOMAIN args.data \ {"data", "type", "rrdatas"} :
          Get(ret.obj, k) = args.data[k]
     /\ IF Truthy(Get(args.data, "data"))
        THEN Get(ret.obj, "rrdatas") = arrify(args.data["data"])
        ELSE Get(ret.obj, "rrdatas") = Get(args.data, "rrdatas")
     /\ Get(ret.obj, "type") = Str(toUpperCase(args.type))

C12_TypedMetadataJSON ==
  /\ ByCtor /\ last = "toJSON"
  /\ args.type = "a"
  /\ args.data = [name |-> Str("example.com."), type |-> Str("cname"),
                  data |-> Str("1.2.3.4"), rrdatas |-> Arr(<<Str("5.6.7.8")>>)]
  /\ ret.obj = [name |-> Str("example.com."), type |-> Str("A"),
                rrdatas |-> Arr(<<Str("1.2.3.4")>>)]

---------------------------------------------------------------------------
(* C13: when the parent zone's createChange reports an error to            *)
(* Change.create, the caller's callback is invoked exactly once with (that *)
(* same error, null as the change, the API response), and the Change's id  *)
(* and metadata are left exactly as they were before the call.             *)
C13_ErrorReported ==
  \A i \in 1..Len(reports) :
    Truthy(reports[i].err)
    => /\ Cardinality(CallbacksOf(i)) = 1
       /\ \A j \in CallbacksOf(i) :
            /\ cbLog[j].request = reports[i].request
            /\ cbLog[j].args.err = reports[i].err
            /\ cbLog[j].args.change = Null
            /\ cbLog[j].args.apiResponse = reports[i].apiResponse
            /\ cbLog[j].args.seen = reports[i].before
       /\ (i = Len(reports) => self = reports[i].before)

C13_ErrorAfterSuccess ==
  /\ Len(reports) = 2 /\ Len(cbLog) = 2
  /\ reports[1].change = [id |-> Str("id-1"), metadata |-> Obj("metadata-1")]
  /\ reports[2].err = Obj("error-2")
  /\ reports[2].apiResponse = Obj("response-1")
  /\ cbLog[2].args = [err |-> Obj("error-2"), change |-> Null,
                      seen |-> [id |-> Str("id-1"), metadata |-> Obj("metadata-1")],
                      apiResponse |-> Obj("response-1")]
  /\ self = [id |-> Str("id-1"), metadata |-> Obj("metadata-1")]

---------------------------------------------------------------------------
(* C14: Change.create passes the caller's config unchanged to the parent   *)
(* zone's createChange, and when that succeeds with a created change c,    *)
(* the Change's id and metadata are set to c.id and c.metadata (both from  *)
(* the same c) before the caller's callback is invoked exactly once with   *)
(* (no error, the very Change object create was called on, the API         *)
(* response); after any sequence of create calls the Change's id and       *)
(* metadata are those of the most recently completed successful one.       *)
C14_CreateSucceeds ==
  /\ \A n \in 1..Len(requests) : requests[n].passed = requests[n].given
  /\ \A i \in Successes :
       /\ Cardinality(CallbacksOf(i)) = 1
       /\ \A j \in CallbacksOf(i) :
            /\ cbLog[j].request = reports[i].request
            /\ cbLog[j].args.err = Null
            /\ cbLog[j].args.change = Self
            /\ cbLog[j].args.seen = [id |-> reports[i].change.id,
                                     metadata |-> reports[i].change.metadata]
            /\ cbLog[j].args.apiResponse = reports[i].apiResponse
  /\ IF Successes = {}
     THEN self = NewChange
     ELSE LET latest == CHOOSE i \in Successes : \A k \in Successes : k <= i
          IN  /\ self.id = reports[latest].change.id
              /\ self.metadata = reports[latest].change.metadata

C14_SecondCreateDoneFirst ==
  /\ Len(reports) = 2 /\ Len(cbLog) = 2
  /\ requests = <<[given |-> Obj("config-add"), passed |-> Obj("config-add")],
                  [given |-> Obj("config-delete"), passed |-> Obj("config-delete")]>>
  /\ reports[1].request = 2
  /\ reports[1].change = [id |-> Str("id-2"), metadata |-> Obj("metadata-2")]
  /\ reports[2].request = 1
  /\ reports[2].change = [id |-> Str("id-1"), metadata |-> Obj("metadata-2")]
  /\ cbLog[2].args.change = Self
  /\ self = [id |-> Str("id-1"), metadata |-> Obj("metadata-2")]

====
